---- MODULE Spec2Model ----
(***************************************************************************)
(* Model of src/providers/webcrypto/sign.ts: the sign-function factory     *)
(* getSign, the one-shot sign chain, key resolution (produceCryptoKey),    *)
(* byte coercion, concatenation and the streaming WebSigner.               *)
(*                                                                         *)
(* JavaScript values are modelled as follows.                              *)
(*   - a string payload is a sequence of code points; a number[] payload   *)
(*     is a sequence of integers; a Uint8Array is a sequence of bytes;     *)
(*   - a Data value is a record [type, v, ref]; type "null" is the value   *)
(*     null (what close() passes to sign once the buffer has been          *)
(*     released); type "number" is a number given where a number[] is      *)
(*     expected; ref is "caller" for the one Uint8Array that the caller    *)
(*     owns and goes on writing to, whose bytes are in callerChunk, and    *)
(*     "" for every other value: arrays that are not written to after      *)
(*     their allocation are modelled by the bytes they hold;               *)
(*   - a promise is a record [state, sig, err, follows]: pending, locked   *)
(*     (resolved with another promise whose outcome it will adopt),        *)
(*     fulfilled (sig) or rejected (err);                                  *)
(*   - the engine (crypto.subtle) is deterministic: its answer is a        *)
(*     function of the arguments of the call, and arrives asynchronously:  *)
(*     importKey rejects an unknown algorithm or hash and empty key data,  *)
(*     sign rejects an unknown algorithm and a key without the sign usage; *)
(*   - a signature value is the triple <<hash, raw key bytes, data bytes>>.*)
(* Every step of a sign() chain (key resolved, importKey answered, sign    *)
(* answered) is an action of its own, so that calls on the signer          *)
(* interleave with the chains in flight.                                   *)
(***************************************************************************)
EXTENDS Integers, Sequences, FiniteSets, TLC

VARIABLES
    argName,       \* the name the caller passes to getSign
    argKey,        \* the key the caller passes to the one-shot call and to create
    argCodec,      \* the codec the caller passes to the one-shot call and to create
    argUse,        \* what the caller does with the sign function: "call" or "create"
    callerChunk,   \* the bytes now held by the Uint8Array the caller owns
    called,        \* getSign has been called
    signFunction,  \* what getSign returned: [made, algorithm]
    thrown,        \* what getSign threw: [threw, message]
    keyPromise,    \* the caller's pending key promise (when argKey is a promise)
    created,       \* a WebSigner has been constructed
    _algorithm,    \* WebSigner._algorithm
    _key,          \* WebSigner._key
    _codec,        \* WebSigner._codec
    _buffer,       \* WebSigner._buffer: [isNull, bytes, ref]
    signature,     \* WebSigner.signature, the deferred result
    attempts,      \* the sign() chains started so far, in order, each with the
                   \* engine calls it has made
    written,       \* the chunks accepted since construction or the last start()
    restarted,     \* start() has been called on the signer after construction
    terminal,      \* the first close() or abort() made on the signer, and whether
                   \* abort() has been called after a first close()
    returned       \* the promise the last start, write, close or abort call on
                   \* the signer returned

vars == <<argName, argKey, argCodec, argUse, callerChunk, called, signFunction, thrown, keyPromise,
          created, _algorithm, _key, _codec, _buffer, signature, attempts,
          written, restarted, terminal, returned>>

(***************************************************************************)
(* Bounds of the model.                                                    *)
(***************************************************************************)
MaxWrites == 2     \* chunks held by the signer and by the chains it has started
MaxAttempts == 2   \* sign() chains started (close calls, or one-shot calls)

(***************************************************************************)
(* Sequences of bytes and strings.                                         *)
(***************************************************************************)
RECURSIVE FlatMap(_, _)
FlatMap(Op(_), s) == IF s = <<>> THEN <<>> ELSE Op(Head(s)) \o FlatMap(Op, Tail(s))

\* String.prototype.toLowerCase on the names the model uses.
toLowerCase(s) ==
    CASE s = "HMAC" -> "hmac"
      [] s = "Hmac" -> "hmac"
      [] s = "Constructor" -> "constructor"
      [] s = "toString" -> "tostring"
      [] s = "SHA256" -> "sha256"
      [] s = "SHA-256" -> "sha-256"
      [] s = "SHA1" -> "sha1"
      [] s = "SHA-1" -> "sha-1"
      [] s = "Sha256" -> "sha256"
      [] s = "SHA-512" -> "sha-512"
      [] OTHER -> s

(***************************************************************************)
(* The tables of the module.                                               *)
(***************************************************************************)
\* const ALGORITHMS = { hmac: 'hmac' }: its own keys, in order.
ALGORITHMS == <<"hmac">>

\* The property names an object literal inherits from Object.prototype.
ObjectPrototypeKeys ==
    {"constructor", "__proto__", "hasOwnProperty", "isPrototypeOf",
     "propertyIsEnumerable", "toLocaleString", "toString", "valueOf"}

\* `algorithm in ALGORITHMS`: own and inherited properties.
InAlgorithms(algorithm) ==
    \/ \E i \in 1..Len(ALGORITHMS) : ALGORITHMS[i] = algorithm
    \/ algorithm \in ObjectPrototypeKeys

\* const HASH: the keys it has.
HashKeys == {"sha256", "sha-256", "sha1", "sha-1"}

\* HASH[hash]
HASH(hash) ==
    CASE hash = "sha256" -> "sha-256"
      [] hash = "sha-256" -> "sha-256"
      [] hash = "sha1" -> "sha-1"
      [] hash = "sha-1" -> "sha-1"

\* HASH[hash] || hash
HashName(hash) == IF hash \in HashKeys THEN HASH(hash) ELSE hash

(***************************************************************************)
(* Codecs (dojo-core/encoding): utf8 and, as a second codec, ascii.        *)
(***************************************************************************)
utf8Char(c) ==
    IF c < 128 THEN <<c>>
    ELSE <<192 + (c \div 64), 128 + (c % 64)>>

asciiChar(c) == <<c>>

encode(codec, str) ==
    IF codec = "utf8" THEN FlatMap(utf8Char, str) ELSE FlatMap(asciiChar, str)

DEFAULT_CODEC == "utf8"

\* new Uint8Array(number[]): each element is taken modulo 2^8.
ToUint8(n) == <<n % 256>>
Uint8ArrayFrom(s) == FlatMap(ToUint8, s)

(***************************************************************************)
(* Data values.                                                            *)
(***************************************************************************)
Str(s) == [type |-> "string", v |-> s, ref |-> ""]
Arr(s) == [type |-> "array", v |-> s, ref |-> ""]
U8(s) == [type |-> "u8", v |-> s, ref |-> ""]
Num(n) == [type |-> "number", v |-> n, ref |-> ""]
NullData == [type |-> "null", v |-> <<>>, ref |-> ""]

\* The Uint8Array the caller owns.
CallerArray == [type |-> "u8", v |-> <<>>, ref |-> "caller"]

\* The bytes a Uint8Array holds now.
Bytes(array) == IF array.ref = "caller" THEN callerChunk ELSE array.v

\* The value of an argument at the time of the call.
Snapshot(data) == [data EXCEPT !.v = Bytes(data), !.ref = ""]

\* new Uint8Array(x) for x a number[], null (no element) or a number (x zeros).
NewUint8Array(x) ==
    IF x.type = "number" THEN U8([i \in 1..x.v |-> 0]) ELSE U8(Uint8ArrayFrom(x.v))

\* new Uint8Array(x) throws a RangeError for a negative number x.
NewUint8ArrayError(x) == IF x.type = "number" /\ x.v < 0 THEN "RangeError" ELSE ""

\* dataToArrayBufferView(data, codec): the Uint8Array it returns, which is
\* `data` itself when data is a Uint8Array.
dataToArrayBufferView(data, codec) ==
    IF data.type = "string" THEN U8(Uint8ArrayFrom(encode(codec, data.v)))
    ELSE IF data.type # "u8" THEN NewUint8Array(data)
    ELSE data

\* The error dataToArrayBufferView(data, codec) throws, "" when it returns.
dataToArrayBufferViewError(data, codec) ==
    IF data.type \notin {"string", "u8"} THEN NewUint8ArrayError(data) ELSE ""

\* A concatenation that writes `right` at offset 0 and `left` after it.
concatUint8Arrays_swapped(left, right) ==
    LET l == Bytes(left)
        r == Bytes(right)
    IN  U8([i \in 1..(Len(l) + Len(r)) |-> IF i <= Len(r) THEN r[i] ELSE l[i - Len(r)]])

\* A concatenation that returns `right` itself when `left` is empty.
concatUint8Arrays_reuse(left, right) ==
    LET l == Bytes(left)
        r == Bytes(right)
    IN  IF Len(l) = 0 THEN right
        ELSE U8([i \in 1..(Len(l) + Len(r)) |-> IF i <= Len(l) THEN l[i] ELSE r[i - Len(l)]])

\* concatUint8Arrays(left, right), both Uint8Arrays: a new Uint8Array that
\* holds the bytes of `left` at offset 0 and those of `right` after them.
concatUint8Arrays(left, right) ==
    LET l == Bytes(left)
        r == Bytes(right)
    IN  U8([i \in 1..(Len(l) + Len(r)) |-> IF i <= Len(l) THEN l[i] ELSE r[i - Len(l)]])

(***************************************************************************)
(* Promises.                                                               *)
(***************************************************************************)
Pending == [state |-> "pending", sig |-> <<>>, err |-> "", follows |-> 0]
Fulfilled(sig) == [state |-> "fulfilled", sig |-> sig, err |-> "", follows |-> 0]
Rejected(err) == [state |-> "rejected", sig |-> <<>>, err |-> err, follows |-> 0]
Locked(i) == [state |-> "locked", sig |-> <<>>, err |-> "", follows |-> i]

\* No promise: no call has returned one yet.
NoPromise == [state |-> "none", sig |-> <<>>, err |-> "", follows |-> 0]

Settled(p) == p.state \in {"fulfilled", "rejected"}

\* A promise that nothing settles.
unresolvedPromise == Pending

\* const resolvedPromise = Promise.resolve()
resolvedPromise == Fulfilled(<<>>)

\* A reject function that settles the promise whatever its state.
PromiseReject_override(p, reason) == Rejected(reason)

\* The reject function of a promise: a no-op once the promise is resolved.
PromiseReject(p, reason) == IF p.state = "pending" THEN Rejected(reason) ELSE p

\* A resolve function that locks the promise whatever its state.
PromiseResolveWith_override(p, i) == Locked(i)

\* The resolve function of a promise, called with the promise of attempt i:
\* the promise is locked to that attempt; a no-op once the promise is resolved.
PromiseResolveWith(p, i) == IF p.state = "pending" THEN Locked(i) ELSE p

\* An adoption by a promise that is not locked to attempt i.
Adopt_any(p, i, outcome) == outcome

\* A promise locked to attempt i adopts the outcome of the attempt.
Adopt(p, i, outcome) ==
    IF p.state = "locked" /\ p.follows = i THEN outcome ELSE p

(***************************************************************************)
(* Keys.                                                                   *)
(***************************************************************************)
\* A SimpleKey { data, algorithm }: algorithm is the name of the hash.
SimpleKey(data, hash) ==
    [type |-> "simple", data |-> data, algorithm |-> hash, hash |-> "",
     raw |-> <<>>, usages |-> {}, extractable |-> FALSE]
\* A CryptoKey of the engine: algorithm is the engine's algorithm.
CryptoKey(alg, hash, raw, usages) ==
    [type |-> "CryptoKey", data |-> <<>>, algorithm |-> alg, hash |-> hash,
     raw |-> raw, usages |-> usages, extractable |-> FALSE]
\* A Promise<Key> the caller passes as the key; keyPromise holds its state.
PromiseKey ==
    [type |-> "promise", data |-> <<>>, algorithm |-> "", hash |-> "",
     raw |-> <<>>, usages |-> {}, extractable |-> FALSE]

(***************************************************************************)
(* The engine, window.crypto.subtle.                                       *)
(***************************************************************************)
EngineHashes == {"sha-1", "sha-256"}

Ok(v) == [ok |-> TRUE, key |-> v, sig |-> <<>>, err |-> ""]
OkSig(s) == [ok |-> TRUE, key |-> PromiseKey, sig |-> s, err |-> ""]
Fail(e) == [ok |-> FALSE, key |-> PromiseKey, sig |-> <<>>, err |-> e]

\* crypto.subtle.importKey(format, input, algorithmAndHash, extractable, usages)
EngineImportKey(c) ==
    IF toLowerCase(c.algorithm.name) # "hmac" THEN Fail("NotSupportedError")
    ELSE IF toLowerCase(c.algorithm.hash) \notin EngineHashes THEN Fail("NotSupportedError")
    ELSE IF c.format # "raw" THEN Fail("NotSupportedError")
    ELSE IF c.input = <<>> THEN Fail("DataError")
    ELSE Ok(CryptoKey("hmac", toLowerCase(c.algorithm.hash), c.input,
                      {c.usages[i] : i \in 1..Len(c.usages)}))

\* crypto.subtle.sign(algorithm, key, data)
EngineSign(c) ==
    IF toLowerCase(c.algorithm) # "hmac" THEN Fail("NotSupportedError")
    ELSE IF c.key.algorithm # "hmac" \/ "sign" \notin c.key.usages
         THEN Fail("InvalidAccessError")
    ELSE OkSig(<<c.key.hash, c.key.raw, c.data>>)

(***************************************************************************)
(* Key resolution and the one-shot chain.                                  *)
(***************************************************************************)
NoImport ==
    [format |-> "", input |-> <<>>, algorithm |-> [name |-> "", hash |-> ""],
     extractable |-> FALSE, usages |-> <<>>]

\* A key resolution that encodes the key data with a codec that is not UTF-8.
produceCryptoKey_ascii(algorithm, key) ==
    IF key.type = "CryptoKey"
    THEN [direct |-> TRUE, key |-> key, call |-> NoImport]
    ELSE [direct |-> FALSE, key |-> PromiseKey,
          call |-> [format |-> "raw",
                    input |-> Uint8ArrayFrom(encode("ascii", key.data)),
                    algorithm |-> [name |-> algorithm, hash |-> HashName(key.algorithm)],
                    extractable |-> FALSE,
                    usages |-> <<"sign", "verify">>]]

\* produceCryptoKey(algorithm, key): the key itself when it is a CryptoKey,
\* otherwise the importKey call whose promise it returns.
produceCryptoKey(algorithm, key) ==
    IF key.type = "CryptoKey"
    THEN [direct |-> TRUE, key |-> key, call |-> NoImport]
    ELSE [direct |-> FALSE, key |-> PromiseKey,
          call |-> [format |-> "raw",
                    input |-> Uint8ArrayFrom(encode("utf8", key.data)),
                    algorithm |-> [name |-> algorithm, hash |-> HashName(key.algorithm)],
                    extractable |-> FALSE,
                    usages |-> <<"sign", "verify">>]]

\* The arguments of the engine's sign call made by the chain.
signArgs(algorithm, handle, data, codec) ==
    [algorithm |-> algorithm, key |-> handle,
     data |-> Bytes(dataToArrayBufferView(data, codec))]

\* The promise sign(algorithm, key, data, codec) returns, once settled, for a
\* key that is not pending.
sign(algorithm, key, data, codec) ==
    LET p == produceCryptoKey(algorithm, key)
        imp == IF p.direct THEN Ok(p.key) ELSE EngineImportKey(p.call)
    IN  IF ~imp.ok THEN Rejected(imp.err)
        ELSE LET s == EngineSign(signArgs(algorithm, imp.key, data, codec))
             IN  IF s.ok THEN Fulfilled(s.sig) ELSE Rejected(s.err)

\* A sign() chain that has just been started. `imports` and `signs` are the
\* engine calls the chain has made. `chunks` and `plain` record, for a chain
\* started by close(), the chunks the buffer was made of and whether the signer
\* had seen nothing but accepted writes before this close.
NewAttempt(origin, algorithm, key, data, codec, chunks, plain) ==
    [origin |-> origin, algorithm |-> algorithm, key |-> key, data |-> data,
     codec |-> codec, stage |-> "key", resolved |-> PromiseKey,
     imports |-> <<>>, signs |-> <<>>, result |-> Pending,
     chunks |-> chunks, plain |-> plain]

(***************************************************************************)
(* Inputs.                                                                 *)
(***************************************************************************)
Chunks == {Str(<<233>>), Arr(<<257>>)}
Reasons == {"AbortRequested", "Cancelled"}

GoodKey == SimpleKey(<<233>>, "sha256")
EmptyKey == SimpleKey(<<>>, "sha-1")
GoodHandle == CryptoKey("hmac", "sha-256", <<195, 169>>, {"sign", "verify"})
VerifyOnlyHandle == CryptoKey("hmac", "sha-256", <<195, 169>>, {"verify"})

\* What the caller's pending key promise may be fulfilled with.
PromisedKeys == {GoodKey, GoodHandle}

\* The calls the caller makes: getSign(name), then either one-shot calls or
\* create(key, codec) and calls on the signer. One-shot chains and a signer
\* share no state, so a behaviour has the one or the other.
Uses == {"call", "create"}
Scenarios ==
    {<<"hmac", GoodKey, "utf8">>, <<"HMAC", GoodKey, "ascii">>,
     <<"hmac", EmptyKey, "utf8">>, <<"Hmac", GoodHandle, "utf8">>,
     <<"hmac", VerifyOnlyHandle, "utf8">>, <<"hmac", PromiseKey, "utf8">>,
     <<"constructor", GoodKey, "utf8">>,
     <<"unknown-algo", GoodKey, "utf8">>, <<"toString", GoodKey, "utf8">>}

NoKeyPromise == [state |-> "none", key |-> PromiseKey, err |-> ""]
NoBuffer == [isNull |-> TRUE, bytes |-> <<>>, ref |-> ""]
Buffer(bytes) == [isNull |-> FALSE, bytes |-> bytes, ref |-> ""]

\* this._buffer as a value, and the field that holds an array.
AsData(buffer) ==
    IF buffer.isNull THEN NullData
    ELSE [type |-> "u8", v |-> buffer.bytes, ref |-> buffer.ref]
AsBuffer(array) == [isNull |-> FALSE, bytes |-> array.v, ref |-> array.ref]
NoMessage == [text |-> "", names |-> <<>>]
NoTerminal == [first |-> "none", reason |-> "", attempt |-> 0, aborted |-> FALSE]

\* The state before getSign is called, for a caller whose arguments are one of
\* `scenarios`.
InitOf(scenarios) ==
    /\ \E s \in scenarios : argName = s[1] /\ argKey = s[2] /\ argCodec = s[3]
    /\ argUse \in Uses
    /\ callerChunk = <<7>>
    /\ called = FALSE
    /\ signFunction = [made |-> FALSE, algorithm |-> ""]
    /\ thrown = [threw |-> FALSE, message |-> NoMessage]
    /\ keyPromise = IF argKey.type = "promise"
                    THEN [state |-> "pending", key |-> PromiseKey, err |-> ""]
                    ELSE NoKeyPromise
    /\ created = FALSE
    /\ _algorithm = ""
    /\ _key = PromiseKey
    /\ _codec = ""
    /\ _buffer = NoBuffer
    /\ signature = Pending
    /\ attempts = <<>>
    /\ written = <<>>
    /\ restarted = FALSE
    /\ terminal = NoTerminal
    /\ returned = NoPromise

Init == InitOf(Scenarios)

fieldVars == <<created, _algorithm, _key, _codec>>
historyVars == <<written, restarted, terminal, returned>>
signerVars == <<fieldVars, _buffer, signature, historyVars>>
callerVars == <<argName, argKey, argCodec, argUse, callerChunk>>
factoryVars == <<called, signFunction, thrown>>

(***************************************************************************)
(* getSign                                                                 *)
(***************************************************************************)
getSign ==
    /\ ~called
    /\ called' = TRUE
    /\ LET algorithm == toLowerCase(argName)
       IN  IF ~InAlgorithms(algorithm)
           THEN /\ thrown' = [threw |-> TRUE,
                              message |-> [text |-> "invalid algorithm; available algorithms are",
                                           names |-> ALGORITHMS]]
                /\ UNCHANGED signFunction
           ELSE /\ signFunction' = [made |-> TRUE, algorithm |-> algorithm]
                /\ UNCHANGED thrown
    /\ UNCHANGED <<callerVars, keyPromise, signerVars, attempts>>

\* signFunction(key, data, codec): the one-shot call.
oneShot(data) ==
    /\ signFunction.made
    /\ argUse = "call"
    /\ Len(attempts) < MaxAttempts
    /\ attempts' = Append(attempts,
           NewAttempt("oneshot", signFunction.algorithm, argKey, data, argCodec,
                      <<>>, FALSE))
    /\ UNCHANGED <<callerVars, factoryVars, keyPromise, signerVars>>

(***************************************************************************)
(* WebSigner                                                               *)
(***************************************************************************)
\* A constructor that leaves the buffer to an explicit start().
create_noStart ==
    /\ signFunction.made
    /\ argUse = "create"
    /\ ~created
    /\ created' = TRUE
    /\ _codec' = argCodec
    /\ _algorithm' = signFunction.algorithm
    /\ _key' = argKey
    /\ signature' = Pending
    /\ UNCHANGED <<callerVars, factoryVars, keyPromise, _buffer, attempts, historyVars>>

\* signFunction.create(key, codec): the constructor, which calls start().
create ==
    /\ signFunction.made
    /\ argUse = "create"
    /\ ~created
    /\ created' = TRUE
    /\ _codec' = argCodec
    /\ _algorithm' = signFunction.algorithm
    /\ _key' = argKey
    /\ _buffer' = Buffer(<<>>)
    /\ signature' = Pending
    /\ UNCHANGED <<callerVars, factoryVars, keyPromise, attempts, historyVars>>

abort(reason) ==
    /\ created
    /\ signature' = PromiseReject(signature, reason)
    /\ terminal' = IF terminal.first = "none"
                   THEN [terminal EXCEPT !.first = "abort", !.reason = reason]
                   ELSE IF terminal.first = "close"
                   THEN [terminal EXCEPT !.aborted = TRUE]
                   ELSE terminal
    /\ returned' = resolvedPromise
    /\ UNCHANGED <<callerVars, factoryVars, keyPromise, fieldVars, _buffer, attempts,
                   written, restarted>>

\* A start() that makes a buffer only when the signer has none.
start_keepBuffer ==
    /\ created
    /\ _buffer' = IF _buffer.isNull THEN Buffer(<<>>) ELSE _buffer
    /\ written' = <<>>
    /\ restarted' = TRUE
    /\ returned' = resolvedPromise
    /\ UNCHANGED <<callerVars, factoryVars, keyPromise, fieldVars, signature, attempts,
                   terminal>>

\* start(): this._buffer = new Uint8Array(0)
start ==
    /\ created
    /\ _buffer' = Buffer(<<>>)
    /\ written' = <<>>
    /\ restarted' = TRUE
    /\ returned' = resolvedPromise
    /\ UNCHANGED <<callerVars, factoryVars, keyPromise, fieldVars, signature, attempts,
                   terminal>>

\* The number of chunks held by the first n sign() chains.
RECURSIVE Held(_)
Held(n) == IF n = 0 THEN 0 ELSE Len(attempts[n].chunks) + Held(n - 1)

\* The error thrown in the try block of write(chunk), "" when none is: the
\* arguments of concatUint8Arrays are evaluated first, so the error of the
\* coercion; otherwise the TypeError of reading .length of a null buffer.
writeError(chunk) ==
    IF dataToArrayBufferViewError(chunk, _codec) # ""
    THEN dataToArrayBufferViewError(chunk, _codec)
    ELSE IF _buffer.isNull THEN "TypeError" ELSE ""

\* A write that reports no error.
writeResult_silent(chunk) == resolvedPromise

\* A write without the try block: the error leaves the call, which returns
\* no promise.
writeResult_uncaught(chunk) ==
    IF writeError(chunk) # ""
    THEN [state |-> "thrown", sig |-> <<>>, err |-> writeError(chunk), follows |-> 0]
    ELSE resolvedPromise

\* The promise write(chunk) returns: resolvedPromise, or Promise.reject(e) for
\* the error e caught.
writeResult(chunk) ==
    IF writeError(chunk) # "" THEN Rejected(writeError(chunk)) ELSE resolvedPromise

\* write(chunk): an error thrown in the try block leaves the buffer as it was.
write(chunk) ==
    /\ created
    /\ Len(written) + Held(Len(attempts)) < MaxWrites
    /\ IF writeError(chunk) # ""
       THEN UNCHANGED <<_buffer, written>>
       ELSE /\ _buffer' = AsBuffer(concatUint8Arrays(AsData(_buffer),
                                       dataToArrayBufferView(chunk, _codec)))
            /\ written' = Append(written, Snapshot(chunk))
    /\ returned' = writeResult(chunk)
    /\ UNCHANGED <<callerVars, factoryVars, keyPromise, fieldVars, signature, attempts,
                   restarted, terminal>>

\* close(): sign() builds a promise chain and never throws, so the catch is
\* not entered; _resolve is given the promise of the chain.
close ==
    /\ created
    /\ Len(attempts) < MaxAttempts
    /\ attempts' = Append(attempts,
           NewAttempt("close", _algorithm, _key,
                      AsData(_buffer), _codec,
                      written, ~restarted /\ terminal.first = "none"))
    /\ signature' = PromiseResolveWith(signature, Len(attempts) + 1)
    /\ _buffer' = NoBuffer
    /\ written' = <<>>
    /\ terminal' = IF terminal.first = "none"
                   THEN [terminal EXCEPT !.first = "close", !.attempt = Len(attempts) + 1]
                   ELSE terminal
    /\ returned' = resolvedPromise
    /\ UNCHANGED <<callerVars, factoryVars, keyPromise, fieldVars, restarted>>

(***************************************************************************)
(* The asynchronous steps: the caller's key promise, the chain, the engine *)
(***************************************************************************)
\* The caller writes other bytes to its Uint8Array.
mutateChunk(bytes) ==
    /\ bytes # callerChunk
    /\ callerChunk' = bytes
    /\ UNCHANGED <<argName, argKey, argCodec, argUse, factoryVars, keyPromise,
                   signerVars, attempts>>

\* The caller's pending key promise is fulfilled with a key.
keyFulfilled(k) ==
    /\ keyPromise.state = "pending"
    /\ keyPromise' = [state |-> "fulfilled", key |-> k, err |-> ""]
    /\ UNCHANGED <<callerVars, factoryVars, signerVars, attempts>>

\* The caller's pending key promise is rejected.
keyRejected ==
    /\ keyPromise.state = "pending"
    /\ keyPromise' = [state |-> "rejected", key |-> PromiseKey, err |-> "KeyRejected"]
    /\ UNCHANGED <<callerVars, factoryVars, signerVars, attempts>>

\* A chain that swallows a failure and delivers an empty signature instead.
Finished_fallback(a, outcome) ==
    [a EXCEPT !.stage = "done",
              !.result = IF outcome.state = "rejected" THEN Fulfilled(<<>>) ELSE outcome]

\* The chain ends with `outcome`.
Finished(a, outcome) == [a EXCEPT !.stage = "done", !.result = outcome]

\* A chain that signs with the key as the caller gave it.
CallSign_keyAsGiven(a, handle) ==
    [a EXCEPT !.stage = "signing",
              !.signs = Append(@, signArgs(a.algorithm, a.resolved, a.data, a.codec))]

\* .then(function (key) { return global.crypto.subtle.sign(...) }): the chain
\* coerces the data and calls the engine's sign with the key it has obtained.
CallSign(a, handle) ==
    [a EXCEPT !.stage = "signing",
              !.signs = Append(@, signArgs(a.algorithm, handle, a.data, a.codec))]

\* Promise.resolve(key).then(produceCryptoKey.bind(null, algorithm)): once the
\* key is there, the chain imports it, or goes on with it when it is a CryptoKey.
resolveKey(i) ==
    /\ i \in 1..Len(attempts)
    /\ attempts[i].stage = "key"
    /\ attempts[i].key.type = "promise" => keyPromise.state # "pending"
    /\ IF attempts[i].key.type = "promise" /\ keyPromise.state = "rejected"
       THEN /\ attempts' = [attempts EXCEPT ![i] = Finished(@, Rejected(keyPromise.err))]
            /\ signature' = Adopt(signature, i, Rejected(keyPromise.err))
       ELSE LET k == IF attempts[i].key.type = "promise" THEN keyPromise.key
                     ELSE attempts[i].key
                p == produceCryptoKey(attempts[i].algorithm, k)
            IN  /\ attempts' =
                       [attempts EXCEPT ![i] =
                           IF p.direct
                           THEN CallSign([@ EXCEPT !.resolved = k], p.key)
                           ELSE [@ EXCEPT !.stage = "importing", !.resolved = k,
                                          !.imports = Append(@, p.call)]]
                /\ UNCHANGED signature
    /\ UNCHANGED <<callerVars, factoryVars, keyPromise, fieldVars, _buffer, historyVars>>

\* The engine answers the importKey call of attempt i.
importDone(i) ==
    /\ i \in 1..Len(attempts)
    /\ attempts[i].stage = "importing"
    /\ LET r == EngineImportKey(attempts[i].imports[Len(attempts[i].imports)])
       IN  IF r.ok
           THEN /\ attempts' = [attempts EXCEPT ![i] = CallSign(@, r.key)]
                /\ UNCHANGED signature
           ELSE /\ attempts' = [attempts EXCEPT ![i] = Finished(@, Rejected(r.err))]
                /\ signature' = Adopt(signature, i, Rejected(r.err))
    /\ UNCHANGED <<callerVars, factoryVars, keyPromise, fieldVars, _buffer, historyVars>>

\* The engine answers the sign call of attempt i; the chain wraps the bytes in
\* a Uint8Array, and a signature locked to the chain adopts the outcome.
signDone(i) ==
    /\ i \in 1..Len(attempts)
    /\ attempts[i].stage = "signing"
    /\ LET r == EngineSign(attempts[i].signs[Len(attempts[i].signs)])
           outcome == IF r.ok THEN Fulfilled(r.sig) ELSE Rejected(r.err)
       IN  /\ attempts' = [attempts EXCEPT ![i] = Finished(@, outcome)]
           /\ signature' = Adopt(signature, i, outcome)
    /\ UNCHANGED <<callerVars, factoryVars, keyPromise, fieldVars, _buffer, historyVars>>

\* concat(bytes(C1), ..., bytes(Cn)) for a sequence of chunks and a codec.
Payload(chunks, codec) ==
    FlatMap(LAMBDA c : Bytes(dataToArrayBufferView(c, codec)), chunks)

\* The payloads the caller gives to the one-shot call: an empty array, a
\* string, an array of numbers and a Uint8Array.
OneShotData == {Arr(<<>>), Str(<<233, 65>>), Arr(<<257, 2>>), U8(<<195, 169, 1>>)}

Next ==
    \/ getSign
    \/ \E d \in OneShotData : oneShot(d)
    \/ create
    \/ start
    \/ \E c \in Chunks : write(c)
    \/ close
    \/ \E r \in Reasons : abort(r)
    \/ \E k \in PromisedKeys : keyFulfilled(k)
    \/ keyRejected
    \/ \E i \in 1..MaxAttempts : resolveKey(i)
    \/ \E i \in 1..MaxAttempts : importDone(i)
    \/ \E i \in 1..MaxAttempts : signDone(i)

Spec == Init /\ [][Next]_vars

(***************************************************************************)
(* The same calls and steps for keys that spell the name of their hash in  *)
(* the ways a caller may spell it.                                         *)
(***************************************************************************)
\* Spellings of the hashes of the HASH table, in lower, upper and mixed case,
\* and the names of two hashes that are not in the table.
HashSpellings ==
    {"sha1", "sha-1", "SHA1", "SHA-1", "sha256", "sha-256", "SHA256", "SHA-256",
     "Sha256", "md5", "SHA-512"}

HashScenarios ==
    {<<"hmac", SimpleKey(<<233>>, h), "utf8">> : h \in HashSpellings}
        \cup {<<"hmac", PromiseKey, "utf8">>}

InitHash == InitOf(HashScenarios)

SpecHash == InitHash /\ [][Next]_vars

(***************************************************************************)
(* A signer whose caller also writes chunks that cannot be coerced to      *)
(* bytes, writes the Uint8Array it owns, and goes on writing to that array *)
(* afterwards.                                                             *)
(***************************************************************************)
\* The chunks: the caller's Uint8Array, and a number for which new Uint8Array
\* throws.
SignerChunks == {CallerArray, Num(-1)}

\* A key the engine imports, and one whose import it rejects.
SignerScenarios == {<<"hmac", GoodKey, "utf8">>, <<"hmac", EmptyKey, "utf8">>}

InitSigner == InitOf(SignerScenarios) /\ argUse = "create"

NextSigner ==
    \/ getSign
    \/ create
    \/ start
    \/ \E c \in SignerChunks : write(c)
    \/ mutateChunk(<<8>>)
    \/ close
    \/ abort("AbortRequested")
    \/ \E i \in 1..MaxAttempts : resolveKey(i)
    \/ \E i \in 1..MaxAttempts : importDone(i)
    \/ \E i \in 1..MaxAttempts : signDone(i)

SpecSigner == InitSigner /\ [][NextSigner]_vars

(***************************************************************************)
(* Properties.                                                             *)
(***************************************************************************)
Attempts == 1..Len(attempts)

\* What sign(algorithm, key, data, codec) settles with for the key the caller
\* passed, which may be its key promise (settled by now).
OneShotOutcome(algorithm, key, data, codec) ==
    IF key.type # "promise" THEN sign(algorithm, key, data, codec)
    ELSE IF keyPromise.state = "rejected" THEN Rejected(keyPromise.err)
    ELSE sign(algorithm, keyPromise.key, data, codec)

\* C1: chunks C1..Cn given to accepted writes and followed by close() settle
\* the signature with the outcome of the one-shot sign on the single payload
\* concat(bytes(C1), ..., bytes(Cn)) with the same key and codec: the buffer
\* holds the chunks' bytes in the order of the writes, the engine is given
\* exactly these bytes, and a one-shot call settles with what sign yields.
C1_StreamEqualsOneShot ==
    /\ ~_buffer.isNull => _buffer.bytes = Payload(written, _codec)
    /\ \A i \in Attempts :
          LET a == attempts[i]
              payload == U8(Payload(a.chunks, a.codec))
          IN  /\ (a.origin = "close" /\ a.plain) =>
                    /\ a.data = payload
                    /\ a.signs # <<>> => a.signs[1].data = payload.v
                    /\ a.stage = "done" =>
                          /\ signature = a.result
                          /\ a.result = OneShotOutcome(a.algorithm, a.key, payload, a.codec)
              /\ (a.origin = "oneshot" /\ a.stage = "done") =>
                    a.result = OneShotOutcome(a.algorithm, a.key, a.data, a.codec)

\* Two different chunks were written, close() was called and the signature is
\* fulfilled.
C1_Witness ==
    \E i \in Attempts :
        /\ attempts[i].origin = "close" /\ attempts[i].plain
        /\ Len(attempts[i].chunks) = 2
        /\ attempts[i].chunks[1] # attempts[i].chunks[2]
        /\ attempts[i].stage = "done"
        /\ signature.state = "fulfilled"

\* C2: when abort(reason) is the first terminal call, the signature is rejected
\* with exactly that reason, in every later state, whatever close() and the
\* chain it starts do afterwards.
C2_AbortFirstSticks ==
    terminal.first = "abort" => signature = Rejected(terminal.reason)

\* abort(reason) came first, a later close() started a chain, and the chain
\* has ended with a signature value.
C2_Witness ==
    /\ terminal.first = "abort"
    /\ \E i \in Attempts :
          /\ attempts[i].origin = "close"
          /\ attempts[i].stage = "done"
          /\ attempts[i].result.state = "fulfilled"
    /\ signature.state = "rejected"

\* C3: once the signature is fulfilled or rejected, no step changes it.
C3_SettledOnce ==
    [][Settled(signature) => signature' = signature]_vars

\* The signature is settled by the first close(), and a second close() has run
\* a chain to a different outcome.
C3_Witness ==
    /\ terminal.first = "close"
    /\ Settled(signature)
    /\ \E i \in Attempts :
          /\ i # terminal.attempt
          /\ attempts[i].origin = "close"
          /\ attempts[i].stage = "done"
          /\ attempts[i].result # signature

\* C4: when close() is the first terminal call, the signature follows the chain
\* that close started and settles with its outcome, the outcome of signing the
\* buffer; an abort(reason) called afterwards, in flight or later, never
\* settles it.
C4_CloseFirstWins ==
    terminal.first = "close" =>
        LET a == attempts[terminal.attempt]
        IN  /\ a.origin = "close"
            /\ a.stage # "done" => signature = Locked(terminal.attempt)
            /\ a.stage = "done" =>
                  /\ signature = a.result
                  /\ a.result = OneShotOutcome(a.algorithm, a.key, a.data, a.codec)
            /\ ~(signature.state = "rejected" /\ signature.err \in Reasons)

\* close() came first, abort was called afterwards, the engine's sign is still
\* in flight and the signature still follows the chain.
C4_Witness ==
    /\ terminal.first = "close"
    /\ terminal.aborted
    /\ attempts[terminal.attempt].stage = "signing"
    /\ signature = Locked(terminal.attempt)

\* A step is a write, close or abort call on the signer.
TerminalOrWrite ==
    \/ \E c \in Chunks : write(c)
    \/ close
    \/ \E r \in Reasons : abort(r)

\* C5: once close() or abort() has been called, every later write, close or
\* abort call leaves the signer as it was: the buffer is neither appended to
\* nor re-created, and the signature is not settled again.
C5_TerminalIsFinal ==
    [][(terminal.first # "none" /\ TerminalOrWrite) =>
          /\ _buffer' = _buffer
          /\ signature' = signature]_vars

\* C6: in every state after close() has been called the buffer is released
\* (null), so that every later write fails and stores nothing.
C6_BufferReleasedAfterClose ==
    (\E i \in Attempts : attempts[i].origin = "close") => _buffer.isNull

\* The names getSign supports: the keys of ALGORITHMS.
Supported == {ALGORITHMS[i] : i \in 1..Len(ALGORITHMS)}

\* C7: getSign(name) returns a sign function whose algorithm is the lower-cased
\* name when that is a supported name; for every other name it throws an error
\* whose message lists the supported names, and returns nothing: no signer is
\* ever made and no chain is ever started.
C7_GetSignValidates ==
    called =>
        IF toLowerCase(argName) \in Supported
        THEN /\ signFunction = [made |-> TRUE, algorithm |-> toLowerCase(argName)]
             /\ ~thrown.threw
        ELSE /\ thrown.threw
             /\ \A n \in Supported :
                   \E j \in 1..Len(thrown.message.names) : thrown.message.names[j] = n
             /\ ~signFunction.made
             /\ ~created
             /\ attempts = <<>>

\* C8: a failure of the key promise, of importKey or of the engine's sign ends
\* the attempt rejected with that error, unchanged; no signature value is
\* delivered, no engine call follows the failure and none is repeated; a
\* signature that follows the attempt is rejected with the same error.
C8_FailurePropagates ==
    \A i \in Attempts :
        LET a == attempts[i]
            keyFailed == a.key.type = "promise" /\ keyPromise.state = "rejected"
            importFailed == a.imports # <<>> /\ ~EngineImportKey(a.imports[1]).ok
            signFailed == a.signs # <<>> /\ ~EngineSign(a.signs[1]).ok
        IN  /\ Len(a.imports) <= 1
            /\ Len(a.signs) <= 1
            /\ (keyFailed /\ a.stage # "key") =>
                  /\ a.stage = "done"
                  /\ a.result = Rejected(keyPromise.err)
                  /\ a.imports = <<>> /\ a.signs = <<>>
            /\ (importFailed /\ a.stage # "importing") =>
                  /\ a.stage = "done"
                  /\ a.result = Rejected(EngineImportKey(a.imports[1]).err)
                  /\ a.signs = <<>>
            /\ (signFailed /\ a.stage # "signing") =>
                  /\ a.stage = "done"
                  /\ a.result = Rejected(EngineSign(a.signs[1]).err)
            /\ (a.stage = "done" /\ a.result.state = "rejected"
                  /\ terminal.first = "close" /\ terminal.attempt = i) =>
                  signature = a.result

\* The first close() of a signer started a chain whose importKey the engine
\* rejected, and the signature is rejected with the engine's error.
C8_Witness ==
    /\ terminal.first = "close"
    /\ LET a == attempts[terminal.attempt]
       IN  /\ a.stage = "done"
           /\ a.imports # <<>>
           /\ ~EngineImportKey(a.imports[1]).ok
           /\ signature = Rejected("DataError")

\* The importKey calls made by the chains the signer has started.
RECURSIVE SignerImports(_)
SignerImports(n) ==
    IF n = 0 THEN 0
    ELSE (IF attempts[n].origin = "close" THEN Len(attempts[n].imports) ELSE 0)
         + SignerImports(n - 1)

\* C9: one signer instance has the engine import its key at most once.
C9_KeyImportedOnce == SignerImports(Len(attempts)) <= 1

\* The canonical names of the hashes the caller's keys name.
CanonicalHash(h) ==
    CASE h \in {"sha256", "sha-256"} -> "sha-256"
      [] h \in {"sha1", "sha-1"} -> "sha-1"

\* C10: once the key of an attempt is resolved (a pending key is awaited
\* first), a CryptoKey is used unchanged with no importKey call, and a
\* SimpleKey causes exactly one importKey call: format raw, the key data in
\* UTF-8, the descriptor {algorithm, canonical hash}, not extractable, usages
\* [sign, verify]; an attempt with a pending key settles as the one-shot sign
\* does with the key the promise was fulfilled with.
C10_KeyDispatch ==
    \A i \in Attempts :
        LET a == attempts[i]
            k == a.resolved
        IN  /\ (a.stage # "key" /\ a.key.type = "promise") =>
                  /\ keyPromise.state # "pending"
                  /\ keyPromise.state = "fulfilled" => k = keyPromise.key
            /\ (a.stage # "key" /\ a.key.type # "promise") => k = a.key
            /\ (a.stage # "key" /\ k.type = "CryptoKey") =>
                  /\ a.imports = <<>>
                  /\ Len(a.signs) = 1 /\ a.signs[1].key = k
            /\ (a.stage # "key" /\ k.type = "simple") =>
                  /\ Len(a.imports) = 1
                  /\ a.imports[1] =
                        [format |-> "raw",
                         input |-> FlatMap(utf8Char, k.data),
                         algorithm |-> [name |-> a.algorithm,
                                        hash |-> CanonicalHash(k.algorithm)],
                         extractable |-> FALSE,
                         usages |-> <<"sign", "verify">>]
            /\ (a.stage = "done" /\ a.key.type = "promise"
                  /\ keyPromise.state = "fulfilled") =>
                  a.result = sign(a.algorithm, keyPromise.key, a.data, a.codec)

\* A SimpleKey was given with a codec that is not UTF-8, and the chain has
\* imported the key and signed.
C10_Witness ==
    \E i \in Attempts :
        /\ attempts[i].codec = "ascii"
        /\ attempts[i].resolved.type = "simple"
        /\ attempts[i].stage = "done"
        /\ attempts[i].result.state = "fulfilled"

\* The name a spelling of a hash stands for: the canonical name of the hash of
\* the HASH table whose short or canonical spelling it is, in any letter case;
\* the spelling itself when it is the spelling of no hash of the table.
Normalized(h) ==
    IF toLowerCase(h) \in HashKeys THEN HASH(toLowerCase(h)) ELSE h

\* C11: the descriptor given to importKey for a SimpleKey names the hash by the
\* canonical name (sha-1, sha-256) of the known hash that the key's hash name
\* spells, whatever the letter case and with or without the dash, and by the
\* key's hash name itself when it spells no known hash.
C11_HashNormalized ==
    \A i \in Attempts :
        LET a == attempts[i]
        IN  (a.imports # <<>> /\ a.resolved.type = "simple") =>
                a.imports[1].algorithm.hash = Normalized(a.resolved.algorithm)

\* C12: a signer on which nothing but writes has been called since create
\* returned has a buffer (empty when nothing was written), so write and close
\* are accepted without start(); close() after no write, like the one-shot
\* call with the data [], has the engine sign the empty byte sequence, and the
\* attempt settles as sign() does on []: with the signature of the empty
\* sequence whenever the key and the algorithm are such that any data signs.
C12_UsableOnceCreated ==
    /\ (created /\ ~restarted /\ terminal.first = "none") =>
          /\ ~_buffer.isNull
          /\ written = <<>> => _buffer = Buffer(<<>>)
    /\ \A i \in Attempts :
          LET a == attempts[i]
          IN  (\/ a.origin = "close" /\ a.plain /\ a.chunks = <<>>
               \/ a.origin = "oneshot" /\ a.data = Arr(<<>>)) =>
                /\ a.origin = "close" => a.data = U8(<<>>)
                /\ a.signs # <<>> => a.signs[1].data = <<>>
                /\ a.stage = "done" =>
                      /\ a.result = OneShotOutcome(a.algorithm, a.key, Arr(<<>>), a.codec)
                      /\ OneShotOutcome(a.algorithm, a.key, Arr(<<1>>), a.codec).state
                            = "fulfilled" =>
                            /\ a.result.state = "fulfilled"
                            /\ a.result.sig[3] = <<>>

\* close() was the first call on a new signer, and the signature is fulfilled
\* with the signature of the empty sequence.
C12_Witness ==
    /\ terminal.first = "close"
    /\ ~restarted
    /\ LET a == attempts[terminal.attempt]
       IN  /\ a.plain /\ a.chunks = <<>>
           /\ a.stage = "done"
           /\ signature = a.result
           /\ signature.state = "fulfilled"
           /\ signature.sig[3] = <<>>

\* A step of a sign() chain: the key is resolved, or the engine answers.
ChainStep ==
    \E i \in 1..MaxAttempts : resolveKey(i) \/ importDone(i) \/ signDone(i)

\* C13: the promise close() returns is fulfilled (with no value) when close
\* returns, while the chain that close has started is still waiting for the
\* key, and no later step of a chain (key resolved, importKey answered, sign
\* answered, whatever the answer) changes it: the outcome of the signing
\* reaches the signature only.
C13_CloseReturnsAtOnce ==
    [][/\ close =>
            /\ returned' = Fulfilled(<<>>)
            /\ attempts'[Len(attempts')].stage = "key"
            /\ attempts'[Len(attempts')].result = Pending
       /\ ChainStep => returned' = returned]_vars

\* close() was the last call on the signer and has returned a fulfilled
\* promise; the engine has not answered the importKey call yet and the
\* signature is not settled.
C13_Witness ==
    /\ terminal.first = "close"
    /\ ~terminal.aborted
    /\ ~restarted
    /\ Len(attempts) = 1
    /\ attempts[1].stage = "importing"
    /\ returned = Fulfilled(<<>>)
    /\ signature = Locked(1)

\* The chunks that cannot be coerced to bytes.
Uncoercible == {Num(-1)}

\* C14: a write, on a signer on which neither close nor abort has been
\* called, of a chunk that cannot be coerced to bytes returns a promise
\* rejected with the error of the coercion and changes neither the signature,
\* which stays pending, nor the buffer; and whatever writes have failed, the
\* buffer holds, and a close() gives to sign() and to the engine, the bytes of
\* the accepted chunks, in order, and nothing else.
C14_FailedWriteIsLocal ==
    /\ [][\A c \in Uncoercible :
            (terminal.first = "none" /\ write(c)) =>
                /\ returned' = Rejected("RangeError")
                /\ signature = Pending /\ signature' = Pending
                /\ _buffer' = _buffer]_vars
    /\ [](/\ (created /\ terminal.first = "none" /\ ~restarted) =>
               _buffer = Buffer(Payload(written, _codec))
          /\ \A i \in Attempts :
                (attempts[i].origin = "close" /\ attempts[i].plain) =>
                    /\ attempts[i].data = U8(Payload(attempts[i].chunks, attempts[i].codec))
                    /\ attempts[i].signs # <<>> =>
                          attempts[i].signs[1].data
                              = Payload(attempts[i].chunks, attempts[i].codec))

\* A chunk has been accepted, and the write of a chunk that cannot be coerced
\* has just returned a rejected promise: the buffer holds the accepted chunk
\* and the signature is pending.
C14_Witness ==
    /\ returned = Rejected("RangeError")
    /\ terminal.first = "none"
    /\ Len(written) = 1
    /\ _buffer = Buffer(Payload(written, _codec))
    /\ signature = Pending

\* C15: in every attempt the engine's sign is called at most once, and only
\* once the key is there: not while the attempt waits for the key or for the
\* answer to importKey; a pending key has been fulfilled; the key passed to
\* sign is the CryptoKey the caller gave (no importKey call then) or the key
\* that the one importKey call of the attempt has produced. An attempt whose
\* key promise is rejected or whose importKey fails never calls sign; every
\* other attempt that has passed key resolution has called it exactly once.
C15_KeyThenSign ==
    \A i \in Attempts :
        LET a == attempts[i]
            keyFailed ==
                \/ a.key.type = "promise" /\ keyPromise.state = "rejected"
                \/ a.imports # <<>> /\ ~EngineImportKey(a.imports[1]).ok
        IN  /\ Len(a.signs) <= 1
            /\ a.stage = "key" => a.imports = <<>> /\ a.signs = <<>>
            /\ a.stage = "importing" => Len(a.imports) = 1 /\ a.signs = <<>>
            /\ a.signs # <<>> =>
                  /\ a.key.type = "promise" =>
                        keyPromise.state = "fulfilled" /\ a.resolved = keyPromise.key
                  /\ a.key.type # "promise" => a.resolved = a.key
                  /\ IF a.resolved.type = "CryptoKey"
                     THEN a.imports = <<>> /\ a.signs[1].key = a.resolved
                     ELSE /\ Len(a.imports) = 1
                          /\ EngineImportKey(a.imports[1]).ok
                          /\ a.signs[1].key = EngineImportKey(a.imports[1]).key
            /\ keyFailed => a.signs = <<>>
            /\ (a.stage \in {"signing", "done"} /\ ~keyFailed) => Len(a.signs) = 1

\* A one-shot call was given a pending key; the promise was fulfilled with a
\* SimpleKey, the engine imported it, and sign was called once, with the
\* imported key.
C15_Witness ==
    \E i \in Attempts :
        /\ attempts[i].origin = "oneshot"
        /\ attempts[i].key.type = "promise"
        /\ attempts[i].resolved.type = "simple"
        /\ Len(attempts[i].imports) = 1
        /\ Len(attempts[i].signs) = 1
        /\ attempts[i].signs[1].key.type = "CryptoKey"
        /\ attempts[i].stage = "done"
        /\ attempts[i].result.state = "fulfilled"

\* C16: an accepted write makes the buffer a new array that holds the bytes of
\* the old buffer followed by the bytes the chunk holds at the call, and
\* leaves the caller's array as it is; the buffer is never the caller's array;
\* the bytes a close() has the engine sign are those of the chunks as they
\* were when written, in the buffer when close was called, whatever the
\* caller has written to its array since and whatever has been called on the
\* signer since.
C16_BufferIsOwned ==
    /\ [][\A c \in SignerChunks :
            write(c) =>
                /\ callerChunk' = callerChunk
                /\ writeError(c) = "" =>
                      /\ ~_buffer'.isNull
                      /\ _buffer'.ref = ""
                      /\ _buffer'.bytes
                            = _buffer.bytes \o Bytes(dataToArrayBufferView(c, _codec))]_vars
    /\ [](/\ _buffer.ref = ""
          /\ \A i \in Attempts :
                attempts[i].origin = "close" =>
                    /\ attempts[i].data.ref = ""
                    /\ attempts[i].data.v = Payload(attempts[i].chunks, attempts[i].codec)
                    /\ attempts[i].signs # <<>> =>
                          attempts[i].signs[1].data
                              = Payload(attempts[i].chunks, attempts[i].codec))

\* The caller wrote its array, holding <<7>>, and called close(); it has since
\* written <<8>> to the array, and start() and a write have been called on the
\* signer: the engine has signed <<7>>.
C16_Witness ==
    /\ callerChunk = <<8>>
    /\ restarted
    /\ written # <<>>
    /\ \E i \in Attempts :
          /\ attempts[i].origin = "close"
          /\ attempts[i].chunks = <<U8(<<7>>)>>
          /\ attempts[i].stage = "done"
          /\ attempts[i].result.state = "fulfilled"
          /\ attempts[i].signs[1].data = <<7>>

\* C17: start() on a signer makes the buffer a new empty array, whatever it
\* held, and changes neither the key, the codec, the algorithm nor the
\* signature, and starts no chain and makes no engine call; so once start()
\* has been called the buffer holds the chunks accepted since the last
\* start() only, and these are the bytes a later close() has signed.
C17_StartResetsBuffer ==
    /\ [][start =>
            /\ _buffer' = Buffer(<<>>)
            /\ UNCHANGED <<created, _key, _codec, _algorithm, signature, attempts>>]_vars
    /\ [](restarted =>
            /\ ~_buffer.isNull => _buffer = Buffer(Payload(written, _codec))
            /\ \A i \in Attempts :
                  LET a == attempts[i]
                  IN  (a.origin = "close" /\ a.chunks # <<>>) =>
                          /\ a.data = U8(Payload(a.chunks, a.codec))
                          /\ a.signs # <<>> =>
                                a.signs[1].data = Payload(a.chunks, a.codec))

\* start() has been called on the signer, a chunk has been written and
\* close() called after it, and the engine has signed the bytes of that chunk.
C17_Witness ==
    /\ restarted
    /\ Len(attempts) = 1
    /\ attempts[1].origin = "close"
    /\ ~attempts[1].plain
    /\ Len(attempts[1].chunks) = 1
    /\ attempts[1].stage = "done"
    /\ attempts[1].result.state = "fulfilled"
    /\ attempts[1].signs[1].data = Payload(attempts[1].chunks, attempts[1].codec)

\* C18: whatever has been called on the signer before, start, close and abort
\* return a fulfilled promise, and write returns a promise that is fulfilled
\* when the chunk's bytes have been appended to the buffer and rejected when
\* they have not: when the chunk cannot be coerced to bytes or the signer has
\* no buffer, the buffer being then left as it was. No call ends with an
\* error thrown to the caller.
C18_CallsReturnPromises ==
    [][/\ (start \/ close \/ \E r \in Reasons : abort(r)) => returned' = Fulfilled(<<>>)
       /\ \A c \in SignerChunks :
             write(c) =>
                 IF c \in Uncoercible \/ _buffer.isNull
                 THEN /\ returned'.state = "rejected"
                      /\ returned'.err \in {"RangeError", "TypeError"}
                      /\ _buffer' = _buffer
                 ELSE /\ returned' = Fulfilled(<<>>)
                      /\ _buffer'
                            = Buffer(_buffer.bytes \o Bytes(dataToArrayBufferView(c, _codec)))]_vars

\* close() has been called, and a write called after it has returned a
\* promise rejected with the TypeError of appending to no buffer.
C18_Witness ==
    /\ terminal.first = "close"
    /\ _buffer.isNull
    /\ returned = Rejected("TypeError")

====
